---- MODULE Spec2Model ----
(***************************************************************************)
(* Server-side rendering core of the vanilla shop: ServerRouter, the       *)
(* per-request server stores, render(url) (main-server.js), the client's   *)
(* hydrateInitialData (main.js) and the express request handler            *)
(* (server.js).                                                            *)
(*                                                                         *)
(* JavaScript strings are sequences of one-character strings, so that      *)
(* split, replace and RegExp matching are computed, not assumed.           *)
(* null is the record Null, a string held in a nullable field is Str(s).   *)
(***************************************************************************)
EXTENDS Integers, Sequences, FiniteSets, TLC

VARIABLES
    routes,      \* ServerRouter.routes of the router under test
    rUrl,        \* argument of the last findRoute call
    rResult,     \* value the last findRoute call returned
    rOp,         \* the last router operation: "new" | "addRoute" | "findRoute"
    store,       \* state held by the server store under test (its `state`)
    sPrev,       \* getState() just before the last dispatch
    sAction,     \* the action of the last dispatch
    heap,        \* the store objects render calls have created: id -> `state`
    req,         \* per render call: its position and its local variables
    window,      \* the browser's window object: property name -> value
    client,      \* the client's long-lived stores: store name -> state
    hTrace,      \* the hydrateInitialData calls made in a row, one record each
    page,        \* a page load: the response, then main.js from its last lines on
    dev          \* the development server: `template`, `render` and its requests

routerVars == <<routes, rUrl, rResult, rOp>>

storeVars == <<store, sPrev, sAction>>

renderVars == <<heap, req>>

clientVars == <<window, client, hTrace>>

pageVars == <<page>>

devVars == <<dev>>

vars ==
    <<routes, rUrl, rResult, rOp, store, sPrev, sAction, heap, req,
      window, client, hTrace, page, dev>>

-----------------------------------------------------------------------------
(* JavaScript values *)

Null == [null |-> TRUE]

Str(s) == [str |-> s]

\* the value `null` returned by findRoute when no route matches
NullRoute == [isNull |-> TRUE, handler |-> "", params |-> <<>>, path |-> <<>>]

-----------------------------------------------------------------------------
(* String helpers *)

Max(S) == CHOOSE x \in S : \A y \in S : y <= x

Min(S) == CHOOSE x \in S : \A y \in S : x <= y

\* positions of character c in s
IndexesOf(s, c) == {i \in 1..Len(s) : s[i] = c}

\* String.prototype.split(sep) for a one-character separator: every piece
RECURSIVE Split(_, _)
Split(s, sep) ==
    IF IndexesOf(s, sep) = {} THEN <<s>>
    ELSE LET i == Min(IndexesOf(s, sep))
         IN  <<SubSeq(s, 1, i - 1)>> \o Split(SubSeq(s, i + 1, Len(s)), sep)

\* length of the longest prefix of s that holds no "/"   ([^/]+ is greedy)
RunLen(s) ==
    IF IndexesOf(s, "/") = {} THEN Len(s) ELSE Min(IndexesOf(s, "/")) - 1

-----------------------------------------------------------------------------
(* ServerRouter *)

\* path.replace(/:([^/]+)/g, ...): the compiled pattern as a token list and
\* the parameter names, left to right.  A ":" that no name follows is left
\* in place as a literal; "." is not escaped and stays a RegExp wildcard.
RECURSIVE CompilePath(_)
CompilePath(path) ==
    IF path = <<>> THEN [regex |-> <<>>, paramNames |-> <<>>]
    ELSE IF Head(path) = ":" /\ RunLen(Tail(path)) >= 1
    THEN LET n    == RunLen(Tail(path))
             rest == CompilePath(SubSeq(path, n + 2, Len(path)))
         IN  [regex      |-> <<[t |-> "group", c |-> ""]>> \o rest.regex,
              paramNames |-> <<SubSeq(path, 2, n + 1)>> \o rest.paramNames]
    ELSE LET rest == CompilePath(Tail(path))
         IN  [regex      |-> <<[t |-> IF Head(path) = "." THEN "any" ELSE "lit",
                                 c |-> Head(path)]>> \o rest.regex,
              paramNames |-> rest.paramNames]

NoMatch == [ok |-> FALSE, caps |-> <<>>]

\* RegexMatch with the closing "$" of the pattern left out
RECURSIVE RegexMatch_NoEndAnchor(_, _)
RegexMatch_NoEndAnchor(regex, s) ==
    IF regex = <<>> THEN [ok |-> TRUE, caps |-> <<>>]
    ELSE LET tok == Head(regex) IN
         IF tok.t = "lit"
         THEN IF s # <<>> /\ Head(s) = tok.c
              THEN RegexMatch_NoEndAnchor(Tail(regex), Tail(s)) ELSE NoMatch
         ELSE IF tok.t = "any"
         THEN IF s # <<>> THEN RegexMatch_NoEndAnchor(Tail(regex), Tail(s)) ELSE NoMatch
         ELSE LET ks == {k \in 1..RunLen(s) :
                           RegexMatch_NoEndAnchor(Tail(regex), SubSeq(s, k + 1, Len(s))).ok}
              IN  IF ks = {} THEN NoMatch
                  ELSE LET k == Max(ks)
                           m == RegexMatch_NoEndAnchor(Tail(regex), SubSeq(s, k + 1, Len(s)))
                       IN  [ok |-> TRUE, caps |-> <<SubSeq(s, 1, k)>> \o m.caps]

\* s.match(new RegExp("^" + regexPath + "$")): the captured groups, the
\* greedy group giving back characters only when the rest fails to match
RECURSIVE RegexMatch(_, _)
RegexMatch(regex, s) ==
    IF regex = <<>> THEN (IF s = <<>> THEN [ok |-> TRUE, caps |-> <<>>] ELSE NoMatch)
    ELSE LET tok == Head(regex) IN
         IF tok.t = "lit"
         THEN IF s # <<>> /\ Head(s) = tok.c
              THEN RegexMatch(Tail(regex), Tail(s)) ELSE NoMatch
         ELSE IF tok.t = "any"
         THEN IF s # <<>> THEN RegexMatch(Tail(regex), Tail(s)) ELSE NoMatch
         ELSE LET ks == {k \in 1..RunLen(s) :
                           RegexMatch(Tail(regex), SubSeq(s, k + 1, Len(s))).ok}
              IN  IF ks = {} THEN NoMatch
                  ELSE LET k == Max(ks)
                           m == RegexMatch(Tail(regex), SubSeq(s, k + 1, Len(s)))
                       IN  [ok |-> TRUE, caps |-> <<SubSeq(s, 1, k)>> \o m.caps]

\* addRoute(path, handler): the entry pushed onto this.routes
RouteEntry(path, handler) ==
    LET c == CompilePath(path)
    IN  [path |-> path, regex |-> c.regex, paramNames |-> c.paramNames,
         handler |-> handler]

addRoute(rs, path, handler) == Append(rs, RouteEntry(path, handler))

\* paramNames.forEach((name, index) => params[name] = match[index + 1])
RECURSIVE BuildParams(_, _, _)
BuildParams(names, caps, params) ==
    IF names = <<>> THEN params
    ELSE BuildParams(Tail(names), Tail(caps),
                     [n \in DOMAIN params \cup {Head(names)} |->
                        IF n = Head(names) THEN Head(caps) ELSE params[n]])

\* MatchEntry is what the loop body of findRoute returns for a matching entry
MatchEntry(entry, m) ==
    [isNull  |-> FALSE,
     handler |-> entry.handler,
     params  |-> BuildParams(entry.paramNames, m.caps, <<>>),
     path    |-> entry.path]

\* FindFrom with the loop keeping the last matching entry instead of
\* returning at the first
RECURSIVE FindFrom_LastWins(_, _, _)
FindFrom_LastWins(rs, i, pathname) ==
    IF i > Len(rs) THEN NullRoute
    ELSE LET m     == RegexMatch(rs[i].regex, pathname)
             later == FindFrom_LastWins(rs, i + 1, pathname)
         IN  IF ~later.isNull THEN later
             ELSE IF m.ok THEN MatchEntry(rs[i], m) ELSE NullRoute

\* the for-of loop of findRoute over the entries from index i on
RECURSIVE FindFrom(_, _, _)
FindFrom(rs, i, pathname) ==
    IF i > Len(rs) THEN NullRoute
    ELSE LET m == RegexMatch(rs[i].regex, pathname)
         IN  IF m.ok THEN MatchEntry(rs[i], m)
             ELSE FindFrom(rs, i + 1, pathname)

\* findRoute(url)
findRoute(rs, url) == FindFrom(rs, 1, Split(url, "?")[1])

-----------------------------------------------------------------------------
(* The mock catalogue (mocks/items.json): three products in two categories *)

Item(productId, title, brand, lprice, category1, category2) ==
    [productId |-> productId, title |-> title, brand |-> brand, lprice |-> lprice,
     category1 |-> category1, category2 |-> category2,
     image |-> productId \o <<".", "j", "p", "g">>]

items ==
    <<Item(<<"4", "2">>, <<"a", "b">>, <<"X">>, <<"3", "0">>, <<"a">>, <<"b">>),
      Item(<<"7">>, <<"a", "c">>, <<"y">>, <<"1", "0">>, <<"a">>, <<"c">>),
      Item(<<"8">>, <<"b">>, <<"x">>, <<"2", "0">>, <<"d">>, <<>>)>>

-----------------------------------------------------------------------------
(* Action types (stores/actionTypes.js), named by the keys the code uses *)

PRODUCT_ACTIONS ==
    [SET_PRODUCTS         |-> "products/setProducts",
     SET_CATEGORIES       |-> "products/setCategories",
     SET_CURRENT_PRODUCT  |-> "products/setCurrentProduct",
     SET_RELATED_PRODUCTS |-> "products/setRelatedProducts",
     SET_LOADING          |-> "products/setLoading",
     SET_ERROR            |-> "products/setError",
     SETUP                |-> "products/setup"]

-----------------------------------------------------------------------------
(* createServerStore *)

\* { ...a, ...b }
Spread(a, b) ==
    [k \in DOMAIN a \cup DOMAIN b |-> IF k \in DOMAIN b THEN b[k] ELSE a[k]]

\* the switch of dispatch: the value assigned to `state`
Reducer(state, action) ==
    CASE action.type = PRODUCT_ACTIONS.SET_PRODUCTS ->
            Spread(state, [products   |-> action.payload.products,
                           totalCount |-> action.payload.totalCount,
                           loading    |-> FALSE,
                           error      |-> Null])
      [] action.type = PRODUCT_ACTIONS.SET_CATEGORIES ->
            Spread(state, [categories |-> action.payload])
      [] action.type = PRODUCT_ACTIONS.SET_CURRENT_PRODUCT ->
            Spread(state, [currentProduct |-> action.payload,
                           loading        |-> FALSE,
                           error          |-> Null])
      [] action.type = PRODUCT_ACTIONS.SET_RELATED_PRODUCTS ->
            Spread(state, [relatedProducts |-> action.payload])
      [] action.type = PRODUCT_ACTIONS.SETUP ->
            Spread(state, action.payload)
      [] OTHER -> state

HandledTypes ==
    {PRODUCT_ACTIONS.SET_PRODUCTS, PRODUCT_ACTIONS.SET_CATEGORIES,
     PRODUCT_ACTIONS.SET_CURRENT_PRODUCT, PRODUCT_ACTIONS.SET_RELATED_PRODUCTS,
     PRODUCT_ACTIONS.SETUP}

\* dispatch with the SETUP branch written as the default branch
dispatch_DefaultSpreads(state, action) ==
    IF action.type \in HandledTypes THEN Reducer(state, action)
    ELSE Spread(state, action.payload)

\* dispatch with SET_RELATED_PRODUCTS also ending loading and clearing the
\* error, as the SET_CURRENT_PRODUCT branch does
dispatch_RelatedClearsLoading(state, action) ==
    IF action.type = PRODUCT_ACTIONS.SET_RELATED_PRODUCTS
    THEN Spread(state, [relatedProducts |-> action.payload,
                        loading |-> FALSE, error |-> Null])
    ELSE Reducer(state, action)

\* dispatch(action): `state` after the call
dispatch(state, action) == Reducer(state, action)

NoAction == [type |-> "", payload |-> Null]

\* the message of line 729
ErrorMessage == Str(<<"n", "o", " ", "s", "u", "c", "h", " ", "p", "r", "o", "d", "u", "c", "t">>)

\* the initial states render hands to createServerStore
ProductInitialState ==
    [products |-> <<>>, totalCount |-> 0, currentProduct |-> Null,
     relatedProducts |-> <<>>, loading |-> FALSE, error |-> Null,
     status |-> "idle", categories |-> <<>>]

CartInitialState == [items |-> <<>>, selectedAll |-> FALSE]

UiInitialState ==
    [cartModal |-> [isOpen |-> FALSE], globalLoading |-> FALSE,
     toast |-> [isVisible |-> FALSE, message |-> <<>>, type |-> "info"]]

-----------------------------------------------------------------------------
(* Query strings and numbers *)

K_limit == <<"l", "i", "m", "i", "t">>

K_page == <<"p", "a", "g", "e">>

K_search == <<"s", "e", "a", "r", "c", "h">>

K_category1 == <<"c", "a", "t", "e", "g", "o", "r", "y", "1">>

K_category2 == <<"c", "a", "t", "e", "g", "o", "r", "y", "2">>

K_sort == <<"s", "o", "r", "t">>

K_price_asc == <<"p", "r", "i", "c", "e", "_", "a", "s", "c">>

K_price_desc == <<"p", "r", "i", "c", "e", "_", "d", "e", "s", "c">>

K_name_asc == <<"n", "a", "m", "e", "_", "a", "s", "c">>

K_name_desc == <<"n", "a", "m", "e", "_", "d", "e", "s", "c">>

Digits == <<"0", "1", "2", "3", "4", "5", "6", "7", "8", "9">>

LowerCase ==
    <<"a", "b", "c", "d", "e", "f", "g", "h", "i", "j", "k", "l", "m",
      "n", "o", "p", "q", "r", "s", "t", "u", "v", "w", "x", "y", "z">>

UpperCase ==
    <<"A", "B", "C", "D", "E", "F", "G", "H", "I", "J", "K", "L", "M",
      "N", "O", "P", "Q", "R", "S", "T", "U", "V", "W", "X", "Y", "Z">>

IsDigit(c) == \E i \in 1..Len(Digits) : Digits[i] = c

DigitValue(c) == (CHOOSE i \in 1..Len(Digits) : Digits[i] = c) - 1

\* parseInt(s) of a string, or of undefined (NaN): the leading digits
RECURSIVE ParseDigits(_, _)
ParseDigits(s, acc) ==
    IF s = <<>> \/ ~IsDigit(Head(s)) THEN acc
    ELSE ParseDigits(Tail(s), 10 * acc + DigitValue(Head(s)))

NaN == [nan |-> TRUE, n |-> 0]

parseInt(v) ==
    IF v = Null \/ v.str = <<>> \/ ~IsDigit(Head(v.str)) THEN NaN
    ELSE [nan |-> FALSE, n |-> ParseDigits(v.str, 0)]

\* parseInt(v) || d
IntOr(v, d) == IF parseInt(v).nan \/ parseInt(v).n = 0 THEN d ELSE parseInt(v).n

\* String.prototype.toLowerCase
ToLowerCase(s) ==
    [i \in 1..Len(s) |->
        IF \E j \in 1..Len(UpperCase) : UpperCase[j] = s[i]
        THEN LowerCase[CHOOSE j \in 1..Len(UpperCase) : UpperCase[j] = s[i]]
        ELSE s[i]]

\* String.prototype.includes
Includes(s, t) ==
    \E i \in 0..(Len(s) - Len(t)) : SubSeq(s, i + 1, i + Len(t)) = t

\* for (const [key, value] of new URLSearchParams(queryString)) query[key] = value
\* (no "%" or "+" occurs in the strings used, so nothing is decoded)
RECURSIVE QueryOf(_, _)
QueryOf(pairs, query) ==
    IF pairs = <<>> THEN query
    ELSE LET pair == Head(pairs)
             eq   == IndexesOf(pair, "=")
             key  == IF eq = {} THEN pair ELSE SubSeq(pair, 1, Min(eq) - 1)
             val  == IF eq = {} THEN <<>> ELSE SubSeq(pair, Min(eq) + 1, Len(pair))
         IN  IF pair = <<>> THEN QueryOf(Tail(pairs), query)
             ELSE QueryOf(Tail(pairs),
                          [k \in DOMAIN query \cup {key} |->
                              IF k = key THEN val ELSE query[k]])

\* lines 630-637 of render: [pathname, queryString] = url.split("?")
ParseUrl(url) ==
    LET parts == Split(url, "?")
    IN  [pathname |-> parts[1],
         query    |-> IF Len(parts) >= 2 /\ parts[2] # <<>>
                      THEN QueryOf(Split(parts[2], "&"), <<>>) ELSE <<>>]

\* query.key as a JavaScript value: the string, or undefined (read as Null)
QueryGet(query, key) == IF key \in DOMAIN query THEN Str(query[key]) ELSE Null

\* query.key || ""
QueryOr(query, key) == IF key \in DOMAIN query THEN query[key] ELSE <<>>

-----------------------------------------------------------------------------
(* Mock data functions *)

\* getUniqueCategories: category1 -> the set of its non-empty category2
getUniqueCategories ==
    [c1 \in {items[i].category1 : i \in 1..Len(items)} |->
        {items[i].category2 : i \in {j \in 1..Len(items) :
            items[j].category1 = c1 /\ items[j].category2 # <<>>}}]

\* a.localeCompare(b) < 0 on lower-case Latin letters and digits
CharOrder == Digits \o LowerCase \o UpperCase

Ord(c) == IF \E i \in 1..Len(CharOrder) : CharOrder[i] = c
          THEN CHOOSE i \in 1..Len(CharOrder) : CharOrder[i] = c ELSE 0

RECURSIVE LocaleLess(_, _)
LocaleLess(a, b) ==
    IF b = <<>> THEN FALSE
    ELSE IF a = <<>> THEN TRUE
    ELSE IF Head(a) = Head(b) THEN LocaleLess(Tail(a), Tail(b))
    ELSE Ord(Head(a)) < Ord(Head(b))

\* the comparators of filterProducts: negative, zero or positive
Compare(sort, a, b) ==
    LET pa == ParseDigits(a.lprice, 0)
        pb == ParseDigits(b.lprice, 0)
        byName == IF LocaleLess(a.title, b.title) THEN -1
                  ELSE IF LocaleLess(b.title, a.title) THEN 1 ELSE 0
    IN  IF sort = K_price_desc THEN pb - pa
        ELSE IF sort = K_name_asc THEN byName
        ELSE IF sort = K_name_desc THEN 0 - byName
        ELSE pa - pb

\* Array.prototype.sort with a comparator: a stable sort
RECURSIVE InsertSorted(_, _, _)
InsertSorted(sorted, x, sort) ==
    IF sorted = <<>> THEN <<x>>
    ELSE IF Compare(sort, Head(sorted), x) <= 0
    THEN <<Head(sorted)>> \o InsertSorted(Tail(sorted), x, sort)
    ELSE <<x>> \o sorted

RECURSIVE SortProducts(_, _)
SortProducts(s, sort) ==
    IF s = <<>> THEN <<>>
    ELSE InsertSorted(SortProducts(SubSeq(s, 1, Len(s) - 1), sort), s[Len(s)], sort)

\* filterProducts(products, query)
filterProducts(products, query) ==
    LET term == ToLowerCase(query.search)
        bySearch(item) ==
            query.search = <<>> \/ Includes(ToLowerCase(item.title), term)
                                \/ Includes(ToLowerCase(item.brand), term)
        byCat1(item) == query.category1 = <<>> \/ item.category1 = query.category1
        byCat2(item) == query.category2 = <<>> \/ item.category2 = query.category2
        filtered == SelectSeq(products,
                              LAMBDA item : bySearch(item) /\ byCat1(item) /\ byCat2(item))
    IN  IF query.sort = <<>> THEN filtered ELSE SortProducts(filtered, query.sort)

\* Array.prototype.slice(start, end) for 0 <= start <= end
Slice(s, start, end) ==
    SubSeq(s, start + 1, IF end < Len(s) THEN end ELSE Len(s))

\* mockGetProducts(options)
mockGetProducts(options) ==
    LET filteredProducts == filterProducts(items, options)
        startIndex == (options.page - 1) * options.limit
        endIndex   == startIndex + options.limit
    IN  [products   |-> Slice(filteredProducts, startIndex, endIndex),
         pagination |-> [page  |-> options.page,
                         limit |-> options.limit,
                         total |-> Len(filteredProducts),
                         hasNext |-> endIndex < Len(filteredProducts),
                         hasPrev |-> options.page > 1]]

\* mockGetCategories()
mockGetCategories == getUniqueCategories

\* items.find(item => item.productId === productId), or Null
FindItem(productId) ==
    IF \E i \in 1..Len(items) : items[i].productId = productId
    THEN items[Min({i \in 1..Len(items) : items[i].productId = productId})]
    ELSE Null

\* product.image.replace(".jpg", suffix + ".jpg"): the first occurrence
ReplaceJpg(image, suffix) ==
    LET ext  == <<".", "j", "p", "g">>
        hits == {i \in 1..(Len(image) - 3) : SubSeq(image, i, i + 3) = ext}
    IN  IF hits = {} THEN image
        ELSE SubSeq(image, 1, Min(hits) - 1) \o suffix \o ext
             \o SubSeq(image, Min(hits) + 4, Len(image))

\* mockGetProduct(productId)
mockGetProduct(productId) ==
    LET product == FindItem(productId)
    IN  IF product = Null THEN Null
        ELSE Spread(product,
                    [description |-> product.title \o <<" ">> \o product.brand,
                     rating      |-> 4,
                     reviewCount |-> 500,
                     stock       |-> 50,
                     images      |-> <<product.image,
                                       ReplaceJpg(product.image, <<"_", "2">>),
                                       ReplaceJpg(product.image, <<"_", "3">>)>>])

\* mockGetRelatedProducts(productId), limit = 20
mockGetRelatedProducts(productId) ==
    LET product == FindItem(productId)
    IN  IF product = Null THEN <<>>
        ELSE Slice(SelectSeq(items,
                             LAMBDA item : item.productId # productId
                                           /\ item.category1 = product.category1),
                   0, 20)

-----------------------------------------------------------------------------
(* The strings the model is run on *)

\* "/"
P_Root == <<"/">>

\* "/product/:id/"
P_Product == <<"/", "p", "r", "o", "d", "u", "c", "t", "/", ":", "i", "d", "/">>

\* "/404"
P_404 == <<"/", "4", "0", "4">>

\* "/:page"
P_Any == <<"/", ":", "p", "a", "g", "e">>

\* "/product/42/"
P_Lit42 == <<"/", "p", "r", "o", "d", "u", "c", "t", "/", "4", "2", "/">>

\* "/:a/:b/"
P_Two == <<"/", ":", "a", "/", ":", "b", "/">>

\* "/4.4"
P_Dot == <<"/", "4", ".", "4">>

\* "/product/:"
P_Colon == <<"/", "p", "r", "o", "d", "u", "c", "t", "/", ":">>

\* "/product/:/"
P_ColonSlash == <<"/", "p", "r", "o", "d", "u", "c", "t", "/", ":", "/">>

\* "/"
U_Root == <<"/">>

\* "/?limit=1"
U_Limit1 == <<"/", "?", "l", "i", "m", "i", "t", "=", "1">>

\* "/?category1=a&sort=price_desc&limit=2&page=1"
U_Cat == <<"/", "?", "c", "a", "t", "e", "g", "o", "r", "y", "1", "=", "a", "&", "s", "o", "r", "t", "=", "p", "r", "i", "c", "e", "_", "d", "e", "s", "c", "&", "l", "i", "m", "i", "t", "=", "2", "&", "p", "a", "g", "e", "=", "1">>

\* "/product/42/?ref=home"
U_P42Ref == <<"/", "p", "r", "o", "d", "u", "c", "t", "/", "4", "2", "/", "?", "r", "e", "f", "=", "h", "o", "m", "e">>

\* "/product/7/"
U_P7 == <<"/", "p", "r", "o", "d", "u", "c", "t", "/", "7", "/">>

\* "/product/99/"
U_P99 == <<"/", "p", "r", "o", "d", "u", "c", "t", "/", "9", "9", "/">>

\* "/product/42"
U_P42NoSlash == <<"/", "p", "r", "o", "d", "u", "c", "t", "/", "4", "2">>

\* "/product//"
U_PEmpty == <<"/", "p", "r", "o", "d", "u", "c", "t", "/", "/">>

\* "/product/42/x/"
U_P42X == <<"/", "p", "r", "o", "d", "u", "c", "t", "/", "4", "2", "/", "x", "/">>

\* "/404"
U_404 == <<"/", "4", "0", "4">>

\* "/unknown"
U_Unknown == <<"/", "u", "n", "k", "n", "o", "w", "n">>

\* "/4x4"
U_4x4 == <<"/", "4", "x", "4">>

\* "/product/:"
U_PColon == <<"/", "p", "r", "o", "d", "u", "c", "t", "/", ":">>

\* "/?limit=1?limit=2"
U_TwoQ == <<"/", "?", "l", "i", "m", "i", "t", "=", "1", "?", "l", "i", "m", "i", "t", "=", "2">>

\* "/?limit=2&limit=1"
U_Dup == <<"/", "?", "l", "i", "m", "i", "t", "=", "2", "&", "l", "i", "m", "i", "t", "=", "1">>

-----------------------------------------------------------------------------
(* render(url), one step at a time.  A step takes the heap of store objects *)
(* and the call's local variables and gives both back.                      *)

NotFoundPath == <<"n", "o", "t", "f", "o", "u", "n", "d">>

\* lines 663-666 of render: new ServerRouter() and its three addRoute calls
ServerRoutes ==
    addRoute(addRoute(addRoute(<<>>, P_Root, "home"), P_Product, "product"),
             P_404, "notfound")

\* render's reading of findRoute's result: route?.path || "notfound" and
\* route?.params || {}
RouteOutcome(route) ==
    [routePath |-> IF route.isNull \/ route.path = <<>>
                   THEN NotFoundPath ELSE route.path,
     params    |-> IF route.isNull THEN <<>> ELSE route.params]

Calls == {"A", "B"}

StoreIds == 1..(3 * Cardinality(Calls))

Free == [free |-> TRUE]

\* createServerStore with one store object per kind of store kept at module
\* level and handed to every call
createServerStore_Shared(h, initialState) ==
    LET same == {i \in StoreIds : h[i] # Free /\ DOMAIN initialState \subseteq DOMAIN h[i]}
        ref  == IF same # {} THEN Min(same) ELSE Min({i \in StoreIds : h[i] = Free})
    IN  [heap |-> IF same # {} THEN h ELSE [h EXCEPT ![ref] = initialState],
         ref  |-> ref]

\* createServerStore(initialState): a new object holding { ...initialState }
createServerStore(h, initialState) ==
    LET ref == Min({i \in StoreIds : h[i] = Free})
    IN  [heap |-> [h EXCEPT ![ref] = Spread(<<>>, initialState)], ref |-> ref]

\* store.getState() and store.dispatch(action) on the object `ref`
GetState(h, ref) == h[ref]

StoreDispatch(h, ref, action) == [h EXCEPT ![ref] = dispatch(h[ref], action)]

NoStores == [productStore |-> 0, cartStore |-> 0, uiStore |-> 0]

IdleReq ==
    [pc |-> "idle", url |-> <<>>, pathname |-> <<>>, query |-> <<>>,
     stores |-> NoStores, routePath |-> <<>>, params |-> <<>>,
     initialData |-> <<>>, html |-> [page |-> ""], head |-> [title |-> ""]]

\* lines 629-660: URL parsing and the three stores
StepStart(h, r, url) ==
    LET u  == ParseUrl(url)
        s1 == createServerStore(h, ProductInitialState)
        s2 == createServerStore(s1.heap, CartInitialState)
        s3 == createServerStore(s2.heap, UiInitialState)
    IN  [h |-> s3.heap,
         r |-> [r EXCEPT !.pc = "route", !.url = url, !.pathname = u.pathname,
                         !.query = u.query,
                         !.stores = [productStore |-> s1.ref, cartStore |-> s2.ref,
                                     uiStore |-> s3.ref]]]

\* lines 662-671: the router and the route of the pathname
StepRoute(h, r) ==
    LET out == RouteOutcome(findRoute(ServerRoutes, r.pathname))
    IN  [h |-> h,
         r |-> [r EXCEPT !.pc = "prefetch", !.routePath = out.routePath,
                         !.params = out.params]]

\* the options render passes to mockGetProducts
ProductOptions(query) ==
    [page      |-> IntOr(QueryGet(query, K_page), 1),
     limit     |-> IntOr(QueryGet(query, K_limit), 20),
     search    |-> QueryOr(query, K_search),
     category1 |-> QueryOr(query, K_category1),
     category2 |-> QueryOr(query, K_category2),
     sort      |-> IF QueryOr(query, K_sort) = <<>> THEN K_price_asc
                   ELSE QueryOr(query, K_sort)]

\* the home page's initialData with the length of the page in place of the
\* total number of products
HomeInitialData_PageCount(productsData, categories) ==
    [products   |-> productsData.products,
     totalCount |-> Len(productsData.products),
     categories |-> categories]

\* lines 702-706: the home page's initialData
HomeInitialData(productsData, categories) ==
    [products   |-> productsData.products,
     totalCount |-> productsData.pagination.total,
     categories |-> categories]

\* lines 722-725: the detail page's initialData
DetailInitialData(product, relatedProducts) ==
    [currentProduct |-> product, relatedProducts |-> relatedProducts]

\* lines 676-716 and 726-731: prefetching, up to the first dispatch
StepPrefetch(h, r) ==
    IF r.routePath = P_Root
    THEN LET productsData == mockGetProducts(ProductOptions(r.query))
             categories   == mockGetCategories
         IN  [h |-> StoreDispatch(h, r.stores.productStore,
                       [type    |-> PRODUCT_ACTIONS.SETUP,
                        payload |-> [products   |-> productsData.products,
                                     totalCount |-> productsData.pagination.total,
                                     categories |-> categories,
                                     loading    |-> FALSE,
                                     error      |-> Null]]),
              r |-> [r EXCEPT !.pc = "html",
                              !.initialData = HomeInitialData(productsData, categories)]]
    ELSE IF r.routePath = P_Product
    THEN LET product == mockGetProduct(r.params[<<"i", "d">>])
         IN  IF product # Null
             THEN [h |-> StoreDispatch(h, r.stores.productStore,
                            [type    |-> PRODUCT_ACTIONS.SET_CURRENT_PRODUCT,
                             payload |-> product]),
                   r |-> [r EXCEPT !.pc = "related"]]
             ELSE [h |-> StoreDispatch(h, r.stores.productStore,
                            [type    |-> PRODUCT_ACTIONS.SET_ERROR,
                             payload |-> ErrorMessage]),
                   r |-> [r EXCEPT !.pc = "html"]]
    ELSE [h |-> h, r |-> [r EXCEPT !.pc = "html"]]

\* lines 717-725: the second dispatch of the detail page and its initialData
StepRelated(h, r) ==
    LET product         == mockGetProduct(r.params[<<"i", "d">>])
        relatedProducts == mockGetRelatedProducts(r.params[<<"i", "d">>])
    IN  [h |-> StoreDispatch(h, r.stores.productStore,
                  [type    |-> PRODUCT_ACTIONS.SET_RELATED_PRODUCTS,
                   payload |-> relatedProducts]),
         r |-> [r EXCEPT !.pc = "html",
                         !.initialData = DetailInitialData(product, relatedProducts)]]

\* a value in a condition: null, undefined and "" are falsy
Truthy(v) == v # Null /\ (("str" \in DOMAIN v) => v.str # <<>>)

\* ServerPageWrapper: what the markup shows of the cart and ui stores
Wrapper(h, r) ==
    [cartSize  |-> Len(GetState(h, r.stores.cartStore).items),
     modalOpen |-> GetState(h, r.stores.uiStore).cartModal.isOpen,
     toast     |-> GetState(h, r.stores.uiStore).toast.isVisible]

\* renderHomePage: what the markup shows of the product store
renderHomePage(h, r) ==
    LET st == GetState(h, r.stores.productStore)
    IN  [page |-> "home", products |-> st.products, loading |-> st.loading,
         error |-> st.error, totalCount |-> st.totalCount,
         hasMore |-> Len(st.products) < st.totalCount,
         categories |-> st.categories, wrapper |-> Wrapper(h, r)]

\* renderProductDetailPage: the content chosen at lines 554-558; ProductDetail
\* destructures `product`, which throws a TypeError when it is null
renderProductDetailPage(h, r) ==
    LET st == GetState(h, r.stores.productStore)
    IN  IF st.loading THEN [page |-> "loading", wrapper |-> Wrapper(h, r)]
        ELSE IF Truthy(st.error) /\ ~Truthy(st.currentProduct)
        THEN [page |-> "error", error |-> st.error, wrapper |-> Wrapper(h, r)]
        ELSE IF st.currentProduct = Null THEN [page |-> "TypeError"]
        ELSE [page |-> "detail", product |-> st.currentProduct,
              relatedProducts |-> st.relatedProducts, wrapper |-> Wrapper(h, r)]

\* renderNotFoundPage
renderNotFoundPage(h, r) == [page |-> "notfound", wrapper |-> Wrapper(h, r)]

\* lines 735-743: the markup, or the exception that ends the call
StepHtml(h, r) ==
    LET html == IF r.routePath = P_Root THEN renderHomePage(h, r)
                ELSE IF r.routePath = P_Product THEN renderProductDetailPage(h, r)
                ELSE renderNotFoundPage(h, r)
    IN  [h |-> h,
         r |-> IF html.page = "TypeError" THEN [r EXCEPT !.pc = "threw"]
               ELSE [r EXCEPT !.pc = "head", !.html = html]]

\* lines 746-771: the head tags, and the return
StepHead(h, r) ==
    LET product == GetState(h, r.stores.productStore).currentProduct
        head == IF r.routePath = P_Root THEN [title |-> "home"]
                ELSE IF r.routePath = P_Product
                THEN IF Truthy(product)
                     THEN [title |-> "product", product |-> product.title,
                           brand |-> product.brand, lprice |-> product.lprice]
                     ELSE [title |-> "no such product"]
                ELSE [title |-> "page not found"]
    IN  [h |-> h, r |-> [r EXCEPT !.pc = "done", !.head = head]]

\* the step render takes from position r.pc
StepAt(h, r) ==
    CASE r.pc = "route"    -> StepRoute(h, r)
      [] r.pc = "prefetch" -> StepPrefetch(h, r)
      [] r.pc = "related"  -> StepRelated(h, r)
      [] r.pc = "html"     -> StepHtml(h, r)
      [] r.pc = "head"     -> StepHead(h, r)
      [] OTHER             -> [h |-> h, r |-> r]

\* render(url) run without interruption, on a heap of its own, up to
\* position pc (or to its end, should it never come to pc)
RECURSIVE RunFrom(_, _, _)
RunFrom(h, r, pc) ==
    IF r.pc = pc \/ r.pc \in {"done", "threw"} THEN [h |-> h, r |-> r]
    ELSE RunFrom(StepAt(h, r).h, StepAt(h, r).r, pc)

Solo(url, pc) ==
    LET start == StepStart([i \in StoreIds |-> Free], IdleReq, url)
    IN  RunFrom(start.h, start.r, pc)

\* render(url): the call from its first line to its return or its exception
render(url) == Solo(url, "done").r

-----------------------------------------------------------------------------
(* The client: its stores and hydrateInitialData *)

\* the reducer of the client's product store (stores/productStore.js): the
\* branches of the server store, a branch for each of SET_LOADING and
\* SET_ERROR, and a default branch returning the state it was given
ClientReducer(state, action) ==
    CASE action.type = PRODUCT_ACTIONS.SET_LOADING ->
            Spread(state, [loading |-> action.payload])
      [] action.type = PRODUCT_ACTIONS.SET_ERROR ->
            Spread(state, [error |-> action.payload, loading |-> FALSE])
      [] OTHER -> Reducer(state, action)

\* the client's stores as constructed at module load
ClientInitialStores ==
    [productStore |-> ProductInitialState, cartStore |-> CartInitialState,
     uiStore |-> UiInitialState]

\* productStore.dispatch(action) on the client
ClientDispatch(stores, action) ==
    [stores EXCEPT !.productStore = ClientReducer(stores.productStore, action)]

INITIAL_DATA == "__INITIAL_DATA__"

\* the state a run of dispatches leaves, and the run itself
RECURSIVE DispatchAll(_, _)
DispatchAll(stores, actions) ==
    IF actions = <<>> THEN stores
    ELSE DispatchAll(ClientDispatch(stores, Head(actions)), Tail(actions))

\* the dispatches of hydration with a SETUP that leaves the store loading
HydrateActions_StillLoading(data) ==
    (IF "products" \in DOMAIN data
     THEN <<[type    |-> PRODUCT_ACTIONS.SETUP,
             payload |-> [products   |-> data.products,
                          totalCount |-> data.totalCount,
                          categories |-> IF "categories" \in DOMAIN data
                                         THEN data.categories ELSE <<>>,
                          loading    |-> TRUE,
                          error      |-> Null]]>>
     ELSE <<>>)
    \o
    (IF "currentProduct" \in DOMAIN data /\ Truthy(data.currentProduct)
     THEN <<[type |-> PRODUCT_ACTIONS.SET_CURRENT_PRODUCT,
             payload |-> data.currentProduct]>>
          \o (IF "relatedProducts" \in DOMAIN data
              THEN <<[type |-> PRODUCT_ACTIONS.SET_RELATED_PRODUCTS,
                      payload |-> data.relatedProducts]>>
              ELSE <<>>)
     ELSE <<>>)

\* the dispatches of lines 29-55 for the payload `data`, in order
HydrateActions(data) ==
    (IF "products" \in DOMAIN data
     THEN <<[type    |-> PRODUCT_ACTIONS.SETUP,
             payload |-> [products   |-> data.products,
                          totalCount |-> data.totalCount,
                          categories |-> IF "categories" \in DOMAIN data
                                         THEN data.categories ELSE <<>>,
                          loading    |-> FALSE,
                          error      |-> Null]]>>
     ELSE <<>>)
    \o
    (IF "currentProduct" \in DOMAIN data /\ Truthy(data.currentProduct)
     THEN <<[type |-> PRODUCT_ACTIONS.SET_CURRENT_PRODUCT,
             payload |-> data.currentProduct]>>
          \o (IF "relatedProducts" \in DOMAIN data
              THEN <<[type |-> PRODUCT_ACTIONS.SET_RELATED_PRODUCTS,
                      payload |-> data.relatedProducts]>>
              ELSE <<>>)
     ELSE <<>>)

\* delete window[name]
Delete(win, name) == [k \in DOMAIN win \ {name} |-> win[k]]

\* hydrateInitialData without its last statement, the delete
hydrateInitialData_NoDelete(win, stores) ==
    IF INITIAL_DATA \in DOMAIN win
    THEN [window |-> win,
          stores |-> DispatchAll(stores, HydrateActions(win[INITIAL_DATA])),
          log    |-> HydrateActions(win[INITIAL_DATA])]
    ELSE [window |-> win, stores |-> stores, log |-> <<>>]

\* hydrateInitialData that never dispatches SET_RELATED_PRODUCTS
hydrateInitialData_NoRelated(win, stores) ==
    IF INITIAL_DATA \in DOMAIN win
    THEN LET acts == SelectSeq(HydrateActions(win[INITIAL_DATA]),
                               LAMBDA a : a.type # PRODUCT_ACTIONS.SET_RELATED_PRODUCTS)
         IN  [window |-> Delete(win, INITIAL_DATA),
              stores |-> DispatchAll(stores, acts),
              log    |-> acts]
    ELSE [window |-> win, stores |-> stores, log |-> <<>>]

\* hydrateInitialData that, finding no payload, sets the product store up
\* with an empty listing
hydrateInitialData_SetupWhenAbsent(win, stores) ==
    LET data == IF INITIAL_DATA \in DOMAIN win THEN win[INITIAL_DATA]
                ELSE [products |-> <<>>, totalCount |-> 0]
    IN  [window |-> Delete(win, INITIAL_DATA),
         stores |-> DispatchAll(stores, HydrateActions(data)),
         log    |-> HydrateActions(data)]

\* hydrateInitialData(): the window and the stores it leaves, and the
\* actions it dispatched to productStore (typeof window !== "undefined"
\* holds in the browser, where main.js runs)
hydrateInitialData(win, stores) ==
    IF INITIAL_DATA \in DOMAIN win
    THEN [window |-> Delete(win, INITIAL_DATA),
          stores |-> DispatchAll(stores, HydrateActions(win[INITIAL_DATA])),
          log    |-> HydrateActions(win[INITIAL_DATA])]
    ELSE [window |-> win, stores |-> stores, log |-> <<>>]

-----------------------------------------------------------------------------
(* The payload script of a response, and main.js from the page's load on *)

\* a JSON text, as the tree of its values
JsonString(s) == [t |-> "string", v |-> s]

JsonNumber(n) == [t |-> "number", v |-> n]

JsonNull == [t |-> "null"]

JsonArray(elements) == [t |-> "array", v |-> elements]

JsonObject(members) == [t |-> "object", v |-> members]

\* the properties of a product that hold numbers; the others hold strings,
\* and `images` an array of strings
NumberFields == {"rating", "reviewCount", "stock"}

\* JSON.stringify of a product, or of null
JsonOfProduct(product) ==
    IF product = Null THEN JsonNull
    ELSE JsonObject(
            [k \in DOMAIN product |->
                IF k \in NumberFields THEN JsonNumber(product[k])
                ELSE IF k = "images"
                THEN JsonArray([i \in 1..Len(product[k]) |-> JsonString(product[k][i])])
                ELSE JsonString(product[k])])

JsonOfProducts(products) ==
    JsonArray([i \in 1..Len(products) |-> JsonOfProduct(products[i])])

\* JSON.stringify of the categories: { category1: { category2: {} } }
JsonOfCategories(categories) ==
    JsonObject([c1 \in DOMAIN categories |->
                   JsonObject([c2 \in categories[c1] |-> JsonObject(<<>>)])])

\* JSON.stringify(initialData)
JSONStringify(initialData) ==
    JsonObject(
        [k \in DOMAIN initialData |->
            CASE k \in {"products", "relatedProducts"} -> JsonOfProducts(initialData[k])
              [] k = "totalCount"     -> JsonNumber(initialData[k])
              [] k = "categories"     -> JsonOfCategories(initialData[k])
              [] k = "currentProduct" -> JsonOfProduct(initialData[k])])

\* the value the browser builds when it evaluates a JSON text as a literal
RECURSIVE Evaluate(_)
Evaluate(json) ==
    CASE json.t = "object" -> [k \in DOMAIN json.v |-> Evaluate(json.v[k])]
      [] json.t = "array"  -> [i \in 1..Len(json.v) |-> Evaluate(json.v[i])]
      [] json.t = "null"   -> Null
      [] OTHER             -> json.v

\* the payload script run by the browser: window.__INITIAL_DATA__ = <text>;
\* (the categories are held as category1 -> the set of its category2 keys)
RunInitialDataScript(win, json) ==
    LET data == [k \in DOMAIN json.v |->
                    IF k = "categories"
                    THEN [c1 \in DOMAIN json.v[k].v |-> DOMAIN json.v[k].v[c1].v]
                    ELSE Evaluate(json.v[k])]
    IN  [k \in DOMAIN win \cup {INITIAL_DATA} |->
            IF k = INITIAL_DATA THEN data ELSE win[k]]

\* main() with the first render and the router's start put first
MainOrder_RenderFirst ==
    <<"initRender", "router.start", "hydrateInitialData", "registerAllEvents",
      "registerGlobalEvents", "loadCartFromStorage">>

\* the statements of main(), in order
MainOrder ==
    <<"hydrateInitialData", "registerAllEvents", "registerGlobalEvents",
      "loadCartFromStorage", "initRender", "router.start">>

\* what main() does, as events
Call(name) == [op |-> "call", arg |-> name]

DispatchEvent(action) == [op |-> "dispatch", arg |-> action.type]

DeleteEvent(name) == [op |-> "delete", arg |-> name]

\* the events of one hydrateInitialData call whose outcome is `out`
HydrateEvents(win, out) ==
    <<Call("hydrateInitialData")>>
    \o [i \in 1..Len(out.log) |-> DispatchEvent(out.log[i])]
    \o (IF INITIAL_DATA \in DOMAIN win /\ INITIAL_DATA \notin DOMAIN out.window
        THEN <<DeleteEvent(INITIAL_DATA)>> ELSE <<>>)

-----------------------------------------------------------------------------
(* The router on its own: any table addRoute can build, any URL looked up *)

MaxRoutes == 2

Patterns ==
    {P_Product, P_404, P_Any, P_Lit42, P_Two, P_Dot, P_Colon, P_ColonSlash}

Handlers == {"home", "product"}

Urls ==
    {U_Root, U_Limit1, U_P42Ref, U_P7, U_P42NoSlash, U_PEmpty, U_P42X, U_404,
     U_Unknown, U_4x4, U_PColon, U_TwoQ}

InitRouter ==
    /\ routes = <<>>
    /\ rUrl = <<>>
    /\ rResult = NullRoute
    /\ rOp = "new"

\* router.addRoute(path, handler) on a router of the test's own
AddRoute(path, handler) ==
    /\ Len(routes) < MaxRoutes
    /\ routes' = addRoute(routes, path, handler)
    /\ rOp' = "addRoute"
    /\ rUrl' = <<>>
    /\ rResult' = NullRoute

\* the router render builds for every request
SetupServerRoutes ==
    /\ routes = <<>>
    /\ routes' = ServerRoutes
    /\ rOp' = "addRoute"
    /\ rUrl' = <<>>
    /\ rResult' = NullRoute

\* router.findRoute(url)
FindRoute(url) ==
    /\ rUrl' = url
    /\ rResult' = findRoute(routes, url)
    /\ rOp' = "findRoute"
    /\ UNCHANGED routes

-----------------------------------------------------------------------------
(* A server store on its own: any sequence of dispatches *)

\* the actions dispatched to the store under test
StoreActions ==
    {[type |-> PRODUCT_ACTIONS.SET_PRODUCTS, payload |-> pl] :
        pl \in {[products |-> <<>>, totalCount |-> 0],
                [products |-> <<items[2]>>, totalCount |-> 3]}}
    \cup {[type |-> PRODUCT_ACTIONS.SET_CATEGORIES, payload |-> pl] :
        pl \in {<<>>, [c \in {<<"a">>} |-> {<<"b">>}]}}
    \cup {[type |-> PRODUCT_ACTIONS.SET_CURRENT_PRODUCT, payload |-> pl] :
        pl \in {Null, items[1]}}
    \cup {[type |-> PRODUCT_ACTIONS.SET_RELATED_PRODUCTS, payload |-> pl] :
        pl \in {<<>>, <<items[2]>>, <<items[2], items[3]>>}}
    \cup {[type |-> PRODUCT_ACTIONS.SETUP, payload |-> pl] :
        pl \in {[loading |-> TRUE], [error |-> ErrorMessage],
                [products |-> <<items[1]>>, totalCount |-> 1,
                 categories |-> <<>>, loading |-> FALSE, error |-> Null]}}
    \cup {[type |-> t, payload |-> pl] :
        t \in {PRODUCT_ACTIONS.SET_ERROR, PRODUCT_ACTIONS.SET_LOADING, "cart/addItem"},
        pl \in {ErrorMessage, [loading |-> TRUE]}}

InitStore ==
    /\ store \in {ProductInitialState, CartInitialState, UiInitialState}
    /\ sPrev = store
    /\ sAction = NoAction

\* store.dispatch(action)
Dispatch(action) ==
    /\ sPrev' = store
    /\ sAction' = action
    /\ store' = dispatch(store, action)

RenderUrls ==
    {U_Root, U_Limit1, U_Cat, U_P42Ref, U_P7, U_P99, U_P42NoSlash, U_404,
     U_Unknown, U_TwoQ, U_Dup}

InitRender ==
    /\ heap = [i \in StoreIds |-> Free]
    /\ req = [c \in Calls |-> IdleReq]

\* the stores of call c that no other call refers to: garbage once c ends
OwnStores(c) ==
    {req[c].stores[k] : k \in DOMAIN req[c].stores}
    \ UNION {{req[d].stores[k] : k \in DOMAIN req[d].stores} : d \in Calls \ {c}}

\* render(url) is called and runs up to the creation of its stores
RenderStart(c, url) ==
    /\ req[c].pc = "idle"
    /\ LET next == StepStart(heap, req[c], url)
       IN  heap' = next.h /\ req' = [req EXCEPT ![c] = next.r]

\* the call goes on by one step from position pc
RenderAt(c, pc) ==
    /\ req[c].pc = pc
    /\ LET next == StepAt(heap, req[c])
       IN  heap' = next.h /\ req' = [req EXCEPT ![c] = next.r]

RenderRoute(c) == RenderAt(c, "route")

RenderPrefetch(c) == RenderAt(c, "prefetch")

RenderRelated(c) == RenderAt(c, "related")

RenderHtml(c) == RenderAt(c, "html")

RenderHead(c) == RenderAt(c, "head")

\* the caller has taken the result (or the exception); the stores are garbage
RenderEnd(c) ==
    /\ req[c].pc \in {"done", "threw"}
    /\ heap' = [i \in StoreIds |-> IF i \in OwnStores(c) THEN Free ELSE heap[i]]
    /\ req' = [req EXCEPT ![c] = IdleReq]

MaxHydrateCalls == 2

\* what a server response can leave in window.__INITIAL_DATA__: the
\* initialData of a render, and snapshots with a part missing
Payloads ==
    {render(url).initialData : url \in {U_Root, U_Limit1, U_P42Ref, U_P7, U_Unknown}}
    \cup {[products |-> <<items[3]>>, totalCount |-> 1],
          [currentProduct |-> mockGetProduct(<<"8">>)],
          [currentProduct |-> Null, relatedProducts |-> <<>>],
          [products |-> <<>>, totalCount |-> 0, categories |-> <<>>,
           currentProduct |-> mockGetProduct(<<"7">>), relatedProducts |-> <<>>]}

\* what the page itself dispatches to productStore besides hydration
ClientActions ==
    {[type |-> PRODUCT_ACTIONS.SET_LOADING, payload |-> TRUE],
     [type |-> PRODUCT_ACTIONS.SET_ERROR, payload |-> ErrorMessage],
     [type |-> PRODUCT_ACTIONS.SET_CURRENT_PRODUCT, payload |-> Null]}

\* the page has loaded: the payload script, if the response had one, has run
InitClient ==
    /\ window \in {<<>>} \cup {[k \in {INITIAL_DATA} |-> data] : data \in Payloads}
    /\ client = ClientInitialStores
    /\ hTrace = <<>>

\* hydrateInitialData() is called
Hydrate ==
    /\ Len(hTrace) < MaxHydrateCalls
    /\ LET out == hydrateInitialData(window, client)
       IN  /\ window' = out.window
           /\ client' = out.stores
           /\ hTrace' = Append(hTrace, [windowBefore |-> window,
                                        storesBefore |-> client,
                                        log          |-> out.log,
                                        storesAfter  |-> out.stores,
                                        windowAfter  |-> out.window])

\* the page dispatches to productStore between two runs of hydration
PageDispatch(action) ==
    /\ client' = ClientDispatch(client, action)
    /\ hTrace' = <<>>
    /\ UNCHANGED window

\* the modes main.js is built for (import.meta.env.MODE)
Modes == {"test", "development"}

PageUrls == RenderUrls

NoPage ==
    [pc |-> "request", at |-> 0, url |-> <<>>, mode |-> "",
     server |-> ProductInitialState, log |-> <<>>]

\* the browser is about to request a page; the client's stores are as their
\* modules construct them, `loading` being either way
InitPage ==
    /\ window = <<>>
    /\ client \in {[ClientInitialStores EXCEPT !.productStore.loading = b] :
                      b \in BOOLEAN}
    /\ hTrace = <<>>
    /\ page = NoPage

\* the production handler answers GET url: render, the payload script put
\* before </head>, and the browser running that script; or next(e)
Respond(url) ==
    /\ page.pc = "request"
    /\ LET out == Solo(url, "done")
       IN  IF out.r.pc = "threw"
           THEN /\ page' = [page EXCEPT !.pc = "error", !.url = url]
                /\ UNCHANGED window
           ELSE /\ window' = RunInitialDataScript(window, JSONStringify(out.r.initialData))
                /\ page' = [page EXCEPT !.pc = "boot", !.url = url,
                                        !.server = GetState(out.h, out.r.stores.productStore)]
    /\ UNCHANGED <<client, hTrace>>

\* lines 73-77: main() at once under test, after enableMocking() otherwise
Boot(mode) ==
    /\ page.pc = "boot"
    /\ page' = [page EXCEPT !.mode = mode,
                            !.pc = IF mode # "test" THEN "mocking" ELSE "main",
                            !.at = IF mode # "test" THEN 0 ELSE 1]
    /\ UNCHANGED <<window, client, hTrace>>

\* enableMocking()'s promise is fulfilled: then(main)
MockingStarted ==
    /\ page.pc = "mocking"
    /\ page' = [page EXCEPT !.pc = "main", !.at = 1]
    /\ UNCHANGED <<window, client, hTrace>>

\* enableMocking()'s promise is rejected: main is never called
MockingFailed ==
    /\ page.pc = "mocking"
    /\ page' = [page EXCEPT !.pc = "failed"]
    /\ UNCHANGED <<window, client, hTrace>>

\* the next statement of main()
MainStep ==
    /\ page.pc = "main"
    /\ LET statement == MainOrder[page.at]
           out       == hydrateInitialData(window, client)
           last      == page.at = Len(MainOrder)
       IN  IF statement = "hydrateInitialData"
           THEN /\ window' = out.window
                /\ client' = out.stores
                /\ page' = [page EXCEPT !.log = @ \o HydrateEvents(window, out),
                                        !.at = IF last THEN @ ELSE @ + 1,
                                        !.pc = IF last THEN "done" ELSE @]
           ELSE /\ page' = [page EXCEPT !.log = Append(@, Call(statement)),
                                        !.at = IF last THEN @ ELSE @ + 1,
                                        !.pc = IF last THEN "done" ELSE @]
                /\ UNCHANGED <<window, client>>
    /\ UNCHANGED hTrace

\* the requests the development server is handling, and their URLs
DevRequests == {"A", "B"}

DevUrls == {U_Root, U_P42Ref, U_P99}

Undefined == [undefined |-> TRUE]

\* the text fs.readFile gave for request q's read of index.html
RawTemplate(q) == [kind |-> "raw", readFor |-> q, url |-> <<>>]

\* vite.transformIndexHtml(url, template)
transformIndexHtml(url, template) ==
    [template EXCEPT !.kind = "transformed", !.url = url]

\* vite.ssrLoadModule("/src/main-server.js") as awaited by request q
ssrLoadModule(q) == [render |-> [loadedFor |-> q]]

NoResponse ==
    [template |-> Undefined, render |-> Undefined, appHtml |-> [page |-> ""],
     head |-> [title |-> ""], initialData |-> JSONStringify(<<>>)]

IdleDevRequest ==
    [pc |-> "idle", url |-> <<>>, argument |-> Undefined, called |-> Undefined,
     result |-> IdleReq, response |-> NoResponse]

\* lines 17-18: `let template; let render;`, and no request yet
InitDev ==
    dev = [template |-> Undefined, render |-> Undefined,
           requests |-> [q \in DevRequests |-> IdleDevRequest]]

\* lines 35-40: a request arrives (base is "/" in development, so the url is
\* req.originalUrl) and the handler runs up to its first await
DevRequest(q, url) ==
    /\ dev.requests[q].pc \in {"idle", "responded", "next"}
    /\ dev' = [dev EXCEPT !.requests[q] =
                  [IdleDevRequest EXCEPT !.pc = "readFile", !.url = url]]

\* lines 40-43: readFile is fulfilled; `template` is assigned and passed to
\* transformIndexHtml
DevReadFile(q) ==
    /\ dev.requests[q].pc = "readFile"
    /\ dev' = [dev EXCEPT !.template = RawTemplate(q),
                          !.requests[q].argument = RawTemplate(q),
                          !.requests[q].pc = "transformIndexHtml"]

\* lines 43-46: transformIndexHtml is fulfilled; `template` is assigned
DevTransform(q) ==
    /\ dev.requests[q].pc = "transformIndexHtml"
    /\ dev' = [dev EXCEPT !.template = transformIndexHtml(dev.requests[q].url,
                                                          dev.requests[q].argument),
                          !.requests[q].pc = "ssrLoadModule"]

\* lines 46-50: ssrLoadModule is fulfilled; `render` is assigned and called
DevLoadModule(q) ==
    /\ dev.requests[q].pc = "ssrLoadModule"
    /\ dev' = [dev EXCEPT !.render = ssrLoadModule(q).render,
                          !.requests[q].called = ssrLoadModule(q).render,
                          !.requests[q].result = render(dev.requests[q].url),
                          !.requests[q].pc = "render"]

\* lines 50-68: the promise of render is settled; the response is built from
\* `template`, or the exception goes to next(e)
DevRespond(q) ==
    /\ dev.requests[q].pc = "render"
    /\ LET r == dev.requests[q].result
       IN  IF r.pc = "threw"
           THEN dev' = [dev EXCEPT !.requests[q].pc = "next"]
           ELSE dev' = [dev EXCEPT
                          !.requests[q].pc = "responded",
                          !.requests[q].response =
                              [template    |-> dev.template,
                               render      |-> dev.requests[q].called,
                               appHtml     |-> r.html,
                               head        |-> r.head,
                               initialData |-> JSONStringify(r.initialData)]]

\* lines 63-68: readFile, transformIndexHtml or ssrLoadModule is rejected
DevFail(q) ==
    /\ dev.requests[q].pc \in {"readFile", "transformIndexHtml", "ssrLoadModule"}
    /\ dev' = [dev EXCEPT !.requests[q].pc = "next"]

RenderAtRest == heap = [i \in StoreIds |-> Free] /\ req = [c \in Calls |-> IdleReq]

ClientAtRest == window = <<>> /\ client = ClientInitialStores /\ hTrace = <<>>

NextRouter ==
    \/ \E path \in Patterns, handler \in Handlers :
          AddRoute(path, handler) /\ UNCHANGED <<storeVars, renderVars, clientVars, pageVars, devVars>>
    \/ SetupServerRoutes /\ UNCHANGED <<storeVars, renderVars, clientVars, pageVars, devVars>>
    \/ \E url \in Urls : FindRoute(url) /\ UNCHANGED <<storeVars, renderVars, clientVars, pageVars, devVars>>

NextStore ==
    \E action \in StoreActions :
        Dispatch(action) /\ UNCHANGED <<routerVars, renderVars, clientVars, pageVars, devVars>>

NextRender ==
    \/ \E c \in Calls, url \in RenderUrls :
          RenderStart(c, url) /\ UNCHANGED <<routerVars, storeVars, clientVars, pageVars, devVars>>
    \/ \E c \in Calls : RenderRoute(c) /\ UNCHANGED <<routerVars, storeVars, clientVars, pageVars, devVars>>
    \/ \E c \in Calls : RenderPrefetch(c) /\ UNCHANGED <<routerVars, storeVars, clientVars, pageVars, devVars>>
    \/ \E c \in Calls : RenderRelated(c) /\ UNCHANGED <<routerVars, storeVars, clientVars, pageVars, devVars>>
    \/ \E c \in Calls : RenderHtml(c) /\ UNCHANGED <<routerVars, storeVars, clientVars, pageVars, devVars>>
    \/ \E c \in Calls : RenderHead(c) /\ UNCHANGED <<routerVars, storeVars, clientVars, pageVars, devVars>>
    \/ \E c \in Calls : RenderEnd(c) /\ UNCHANGED <<routerVars, storeVars, clientVars, pageVars, devVars>>

NextClient ==
    \/ Hydrate /\ UNCHANGED <<routerVars, storeVars, renderVars, pageVars, devVars>>
    \/ \E action \in ClientActions :
          PageDispatch(action) /\ UNCHANGED <<routerVars, storeVars, renderVars, pageVars, devVars>>

NextPage ==
    \/ \E url \in PageUrls :
          Respond(url) /\ UNCHANGED <<routerVars, storeVars, renderVars, devVars>>
    \/ \E mode \in Modes :
          Boot(mode) /\ UNCHANGED <<routerVars, storeVars, renderVars, devVars>>
    \/ MockingStarted /\ UNCHANGED <<routerVars, storeVars, renderVars, devVars>>
    \/ MockingFailed /\ UNCHANGED <<routerVars, storeVars, renderVars, devVars>>
    \/ MainStep /\ UNCHANGED <<routerVars, storeVars, renderVars, devVars>>

NextDev ==
    \/ \E q \in DevRequests, url \in DevUrls :
          DevRequest(q, url)
          /\ UNCHANGED <<routerVars, storeVars, renderVars, clientVars, pageVars>>
    \/ \E q \in DevRequests :
          DevReadFile(q)
          /\ UNCHANGED <<routerVars, storeVars, renderVars, clientVars, pageVars>>
    \/ \E q \in DevRequests :
          DevTransform(q)
          /\ UNCHANGED <<routerVars, storeVars, renderVars, clientVars, pageVars>>
    \/ \E q \in DevRequests :
          DevLoadModule(q)
          /\ UNCHANGED <<routerVars, storeVars, renderVars, clientVars, pageVars>>
    \/ \E q \in DevRequests :
          DevRespond(q)
          /\ UNCHANGED <<routerVars, storeVars, renderVars, clientVars, pageVars>>
    \/ \E q \in DevRequests :
          DevFail(q)
          /\ UNCHANGED <<routerVars, storeVars, renderVars, clientVars, pageVars>>

PageAtRest == page = NoPage

DevAtRest == InitDev

\* the router and the store before anything has used them
RouterAtRest == routes = <<>> /\ rUrl = <<>> /\ rResult = NullRoute /\ rOp = "new"

StoreAtRest == store = ProductInitialState /\ sPrev = store /\ sAction = NoAction

InitRouterSpec == InitRouter /\ StoreAtRest /\ RenderAtRest /\ ClientAtRest
    /\ PageAtRest /\ DevAtRest

InitStoreSpec == InitStore /\ RouterAtRest /\ RenderAtRest /\ ClientAtRest
    /\ PageAtRest /\ DevAtRest

InitRenderSpec == InitRender /\ RouterAtRest /\ StoreAtRest /\ ClientAtRest
    /\ PageAtRest /\ DevAtRest

InitClientSpec == InitClient /\ RouterAtRest /\ StoreAtRest /\ RenderAtRest
    /\ PageAtRest /\ DevAtRest

InitPageSpec == InitPage /\ RouterAtRest /\ StoreAtRest /\ RenderAtRest /\ DevAtRest

InitDevSpec ==
    InitDev /\ RouterAtRest /\ StoreAtRest /\ RenderAtRest /\ ClientAtRest
    /\ PageAtRest

SpecRouter == InitRouterSpec /\ [][NextRouter]_vars

SpecStore == InitStoreSpec /\ [][NextStore]_vars

SpecRender == InitRenderSpec /\ [][NextRender]_vars

SpecClient == InitClientSpec /\ [][NextClient]_vars

SpecPage == InitPageSpec /\ [][NextPage]_vars

SpecDev == InitDevSpec /\ [][NextDev]_vars

Spec == SpecRender

-----------------------------------------------------------------------------
(* Route resolution: what the claims mean by a path matching a pattern *)

\* the part of a URL before its first "?"
PathOf(url) ==
    IF IndexesOf(url, "?") = {} THEN url
    ELSE SubSeq(url, 1, Min(IndexesOf(url, "?")) - 1)

IsParamSegment(seg) == Len(seg) >= 2 /\ seg[1] = ":"

\* a pattern of ":name" segments and of literal segments that hold neither
\* ":" nor the RegExp wildcard "." (addRoute escapes nothing)
WellFormed(pattern) ==
    \A i \in 1..Len(Split(pattern, "/")) :
        LET seg == Split(pattern, "/")[i]
        IN  \/ IsParamSegment(seg) /\ IndexesOf(Tail(seg), ":") = {}
            \/ IndexesOf(seg, ":") = {} /\ IndexesOf(seg, ".") = {}

\* segment count and literal segments agree, named segments are non-empty
StructMatch(pattern, path) ==
    LET ps == Split(pattern, "/")
        xs == Split(path, "/")
    IN  /\ Len(ps) = Len(xs)
        /\ \A i \in 1..Len(ps) :
              IF IsParamSegment(ps[i]) THEN xs[i] # <<>> ELSE ps[i] = xs[i]

\* each parameter name of the pattern mapped to the segment at its place
StructParams(pattern, path) ==
    LET ps  == Split(pattern, "/")
        xs  == Split(path, "/")
        idx == {i \in 1..Len(ps) : IsParamSegment(ps[i])}
    IN  [n \in {Tail(ps[i]) : i \in idx} |->
            xs[Max({i \in idx : Tail(ps[i]) = n})]]

C5_FirstRegisteredWins ==
    rOp = "findRoute" =>
        LET pathname == PathOf(rUrl)
            hits     == {i \in 1..Len(routes) : RegexMatch(routes[i].regex, pathname).ok}
        IN  hits # {} =>
                /\ ~rResult.isNull
                /\ rResult.handler = routes[Min(hits)].handler
                /\ rResult.path = routes[Min(hits)].path

\* two entries with different handlers both match and the first is returned
C5_Witness ==
    /\ rOp = "findRoute"
    /\ Len(routes) >= 2
    /\ RegexMatch(routes[1].regex, PathOf(rUrl)).ok
    /\ RegexMatch(routes[2].regex, PathOf(rUrl)).ok
    /\ routes[1].path # routes[2].path
    /\ routes[1].handler # routes[2].handler
    /\ rResult.handler = routes[1].handler

-----------------------------------------------------------------------------
(* Server store *)

\* C6: a dispatch whose action type the reducer does not handle leaves
\* getState() equal to what it was before the dispatch
C6_UnknownActionIsNoOp ==
    (sAction # NoAction /\ sAction.type \notin HandledTypes) => store = sPrev

\* an unhandled SET_ERROR arrives at a store that earlier dispatches changed
C6_Witness ==
    /\ sAction.type = PRODUCT_ACTIONS.SET_ERROR
    /\ "products" \in DOMAIN store
    /\ store.products # <<>>
    /\ store # ProductInitialState

\* C7: SET_RELATED_PRODUCTS with payload L gives relatedProducts = L and
\* leaves every other field as it was
C7_SetRelatedProductsFrame ==
    sAction.type = PRODUCT_ACTIONS.SET_RELATED_PRODUCTS =>
        /\ store.relatedProducts = sAction.payload
        /\ DOMAIN store = DOMAIN sPrev \cup {"relatedProducts"}
        /\ \A k \in DOMAIN sPrev \ {"relatedProducts"} : store[k] = sPrev[k]

\* the payload [p1, p2] set on a product store that is loading with an error
C7_Witness ==
    /\ sAction.type = PRODUCT_ACTIONS.SET_RELATED_PRODUCTS
    /\ Len(sAction.payload) = 2
    /\ DOMAIN sPrev = DOMAIN ProductInitialState
    /\ sPrev.loading
    /\ sPrev.error # Null
    /\ sPrev.relatedProducts = <<>>
    /\ store.relatedProducts = sAction.payload

-----------------------------------------------------------------------------
(* render *)

\* what a call can see: its position, the states of its three stores through
\* getState(), and its local variables
View(h, r) ==
    [pc           |-> r.pc,
     productStore |-> GetState(h, r.stores.productStore),
     cartStore    |-> GetState(h, r.stores.cartStore),
     uiStore      |-> GetState(h, r.stores.uiStore),
     routePath    |-> r.routePath,
     params       |-> r.params,
     initialData  |-> r.initialData,
     html         |-> r.html,
     head         |-> r.head]

StoresOf(c) == {req[c].stores[k] : k \in DOMAIN req[c].stores}

\* C1: however the steps of two render calls interleave, the calls share no
\* store object, and at every position (the end included) each call's store
\* states, markup, head and initialData are those of the same call run alone
C1_RenderIsolation ==
    /\ \A c \in Calls : req[c].pc # "idle" =>
          View(heap, req[c]) =
              View(Solo(req[c].url, req[c].pc).h, Solo(req[c].url, req[c].pc).r)
    /\ \A c, d \in Calls :
          (c # d /\ req[c].pc # "idle" /\ req[d].pc # "idle") =>
              StoresOf(c) \cap StoresOf(d) = {}

\* a detail render between its two dispatches while a home render, started
\* after it, has already dispatched and rendered its markup
C1_Witness ==
    /\ req["A"].url = U_P42Ref /\ req["A"].pc = "related"
    /\ req["B"].url = U_Limit1 /\ req["B"].pc = "head"
    /\ req["A"].stores.productStore < req["B"].stores.productStore
    /\ GetState(heap, req["A"].stores.productStore).currentProduct # Null
    /\ GetState(heap, req["B"].stores.productStore).products # <<>>

\* the id the product-detail route captured names no product of the catalogue
MissingProduct(r) ==
    /\ r.routePath = P_Product
    /\ mockGetProduct(r.params[<<"i", "d">>]) = Null

\* C3: on the detail route with an id that names no product, render leaves
\* the failure in the product store's error field and goes on to the error
\* markup; the call does not throw
C3_MissingProductRendersError ==
    \A c \in Calls :
        (req[c].pc \in {"html", "head", "done", "threw"} /\ MissingProduct(req[c])) =>
            /\ GetState(heap, req[c].stores.productStore).error # Null
            /\ req[c].pc # "threw"
            /\ req[c].pc \in {"head", "done"} => req[c].html.page = "error"

\* C8: once prefetching is over, initialData holds exactly products,
\* totalCount and categories on the home route, exactly currentProduct and
\* relatedProducts on the detail route of an existing product, and nothing
\* otherwise; each field equals that field of the product store's state
C8_InitialDataIsMinimal ==
    \A c \in Calls :
        req[c].pc \in {"html", "head", "done", "threw"} =>
            LET st == GetState(heap, req[c].stores.productStore)
                d  == req[c].initialData
            IN  /\ DOMAIN d =
                      IF req[c].routePath = P_Root
                      THEN {"products", "totalCount", "categories"}
                      ELSE IF req[c].routePath = P_Product /\ ~MissingProduct(req[c])
                      THEN {"currentProduct", "relatedProducts"}
                      ELSE {}
                /\ \A k \in DOMAIN d : d[k] = st[k]
                /\ DOMAIN d # DOMAIN st

\* a home render of the first page of one product returns with a snapshot
\* that holds one product of a total of three
C8_Witness ==
    /\ req["A"].pc = "done"
    /\ req["A"].url = U_Limit1
    /\ Len(req["A"].initialData.products) = 1
    /\ req["A"].initialData.totalCount = 3
    /\ req["B"].pc = "done"
    /\ req["B"].url = U_P7
    /\ req["B"].initialData.currentProduct.productId = <<"7">>
    /\ Len(req["B"].initialData.relatedProducts) = 1

-----------------------------------------------------------------------------
(* Hydration *)

PayloadPresent(call) == INITIAL_DATA \in DOMAIN call.windowBefore

\* C2: when hydrateInitialData runs twice in a row and the first run finds a
\* payload, the first run leaves the slot empty, the second dispatches
\* nothing, and the stores after the second are those after the first
C2_HydrateTwiceIsOnce ==
    \A i \in 2..Len(hTrace) :
        PayloadPresent(hTrace[1]) =>
            /\ INITIAL_DATA \notin DOMAIN hTrace[1].windowAfter
            /\ hTrace[i].log = <<>>
            /\ hTrace[i].storesAfter = hTrace[1].storesAfter

\* two runs in a row, the first of which hydrated a detail page
C2_Witness ==
    /\ Len(hTrace) = 2
    /\ PayloadPresent(hTrace[1])
    /\ Len(hTrace[1].log) = 2
    /\ client.productStore.currentProduct # Null
    /\ client.productStore.relatedProducts # <<>>

\* C9 as stated: every run that finds a payload dispatches exactly one
\* action, a SETUP, and leaves the slot empty
C9_SingleSetupDispatch ==
    \A i \in 1..Len(hTrace) :
        PayloadPresent(hTrace[i]) =>
            /\ Len(hTrace[i].log) = 1
            /\ hTrace[i].log[1].type = PRODUCT_ACTIONS.SETUP
            /\ INITIAL_DATA \notin DOMAIN hTrace[i].windowAfter

TypesOf(log) == [j \in 1..Len(log) |-> log[j].type]

\* C9 amended: a run that finds a payload dispatches one SETUP carrying the
\* listing fields if the payload has products; then, if the payload has a
\* current product, SET_CURRENT_PRODUCT with it, followed by
\* SET_RELATED_PRODUCTS if the payload has related products; nothing else;
\* and it leaves the slot empty
C9_HydrateDispatches ==
    \A i \in 1..Len(hTrace) :
        PayloadPresent(hTrace[i]) =>
            LET data    == hTrace[i].windowBefore[INITIAL_DATA]
                log     == hTrace[i].log
                listing == "products" \in DOMAIN data
                detail  == "currentProduct" \in DOMAIN data /\ data.currentProduct # Null
                related == detail /\ "relatedProducts" \in DOMAIN data
                n       == IF listing THEN 1 ELSE 0
            IN  /\ TypesOf(log) =
                      (IF listing THEN <<PRODUCT_ACTIONS.SETUP>> ELSE <<>>)
                      \o (IF detail THEN <<PRODUCT_ACTIONS.SET_CURRENT_PRODUCT>> ELSE <<>>)
                      \o (IF related THEN <<PRODUCT_ACTIONS.SET_RELATED_PRODUCTS>> ELSE <<>>)
                /\ listing =>
                      /\ DOMAIN log[1].payload =
                            {"products", "totalCount", "categories", "loading", "error"}
                      /\ log[1].payload.products = data.products
                      /\ log[1].payload.totalCount = data.totalCount
                      /\ ("categories" \in DOMAIN data) =>
                            log[1].payload.categories = data.categories
                      /\ log[1].payload.loading = FALSE
                      /\ log[1].payload.error = Null
                /\ detail => log[n + 1].payload = data.currentProduct
                /\ related => log[n + 2].payload = data.relatedProducts
                /\ INITIAL_DATA \notin DOMAIN hTrace[i].windowAfter

\* a detail-page payload was hydrated by two dispatches, neither a SETUP
C9_Witness ==
    /\ Len(hTrace) = 1
    /\ PayloadPresent(hTrace[1])
    /\ hTrace[1].windowBefore[INITIAL_DATA] = render(U_P42Ref).initialData
    /\ TypesOf(hTrace[1].log) =
          <<PRODUCT_ACTIONS.SET_CURRENT_PRODUCT, PRODUCT_ACTIONS.SET_RELATED_PRODUCTS>>
    /\ window = <<>>

\* C10: a run that finds no payload dispatches nothing and leaves the stores
\* and the window as they were
C10_AbsentPayloadIsNoOp ==
    \A i \in 1..Len(hTrace) :
        ~PayloadPresent(hTrace[i]) =>
            /\ hTrace[i].log = <<>>
            /\ hTrace[i].storesAfter = hTrace[i].storesBefore
            /\ hTrace[i].windowAfter = hTrace[i].windowBefore

\* a page that was not server-rendered runs hydration after its store has
\* already changed
C10_Witness ==
    /\ Len(hTrace) = 1
    /\ ~PayloadPresent(hTrace[1])
    /\ hTrace[1].storesBefore # ClientInitialStores
    /\ client.productStore.loading

-----------------------------------------------------------------------------
(* Pattern matching, URL splitting and pattern validation *)

\* C12: an entry's RegExp matches a path only if the path structurally
\* matches the entry's pattern (same segment count, equal literal segments,
\* non-empty named segments); on render's table "/product/42", "/product//"
\* and "/product/42/x/" resolve to nothing, that is to the not-found page
C12_ExactSegmentMatch ==
    rOp = "findRoute" =>
        /\ \A i \in 1..Len(routes) :
              RegexMatch(routes[i].regex, PathOf(rUrl)).ok =>
                  StructMatch(routes[i].path, PathOf(rUrl))
        /\ (routes = ServerRoutes /\ rUrl \in {U_P42NoSlash, U_PEmpty, U_P42X}) =>
              RouteOutcome(rResult).routePath = NotFoundPath

\* the query string the claims speak of: all that follows the first "?"
QueryAfterFirstMark(url) ==
    IF IndexesOf(url, "?") = {} THEN <<>>
    ELSE LET qs == SubSeq(url, Min(IndexesOf(url, "?")) + 1, Len(url))
         IN  IF qs = <<>> THEN <<>> ELSE QueryOf(Split(qs, "&"), <<>>)

\* C13: render's pathname is the URL up to its first "?", and its query
\* mapping is that of everything after the first "?", later "?" included,
\* the last occurrence of a key giving its value; whether or not the path
\* matches a route
C13_SplitAtFirstQuestionMark ==
    \A c \in Calls :
        req[c].pc # "idle" =>
            /\ req[c].pathname = PathOf(req[c].url)
            /\ req[c].query = QueryAfterFirstMark(req[c].url)

\* a ":" that no parameter name follows
Malformed(pattern) ==
    \E i \in 1..Len(pattern) :
        pattern[i] = ":" /\ (i = Len(pattern) \/ pattern[i + 1] = "/")

\* C14: addRoute appends no entry for a malformed pattern
C14_MalformedPatternRejected ==
    \A i \in 1..Len(routes) : ~Malformed(routes[i].path)

-----------------------------------------------------------------------------
(* Client startup, the development server and the handoff of state *)

HydrationEvent(e) == e.op \in {"dispatch", "delete"}

StartEvent(e) == e = Call("initRender") \/ e = Call("router.start")

\* C11: in main(), every dispatch of hydrateInitialData and its deletion of
\* the payload slot come before initRender and before router.start(); when
\* either of those is called, hydrateInitialData has been called and the
\* payload slot is gone
C11_HydrationBeforeStart ==
    /\ \A i, j \in 1..Len(page.log) :
          (HydrationEvent(page.log[i]) /\ StartEvent(page.log[j])) => i < j
    /\ \A j \in 1..Len(page.log) :
          StartEvent(page.log[j]) =>
              /\ \E i \in 1..(j - 1) : page.log[i] = Call("hydrateInitialData")
              /\ INITIAL_DATA \notin DOMAIN window

C11_Witness ==
    /\ page.pc = "done"
    /\ page.mode = "development"
    /\ \E i \in 1..Len(page.log) : page.log[i].op = "dispatch"
    /\ \E i \in 1..Len(page.log) : page.log[i] = DeleteEvent(INITIAL_DATA)
    /\ \E i \in 1..Len(page.log) : page.log[i] = Call("initRender")
    /\ page.log[Len(page.log)] = Call("router.start")

\* C15: a development response is built from the template read and
\* transformed for its own request and URL, and from the render function
\* loaded for its own request
C15_OwnTemplateAndRender ==
    \A q \in DevRequests :
        dev.requests[q].pc = "responded" =>
            /\ dev.requests[q].response.template =
                  transformIndexHtml(dev.requests[q].url, RawTemplate(q))
            /\ dev.requests[q].response.render = ssrLoadModule(q).render

\* the URLs of the home page and of the detail page of a product that exists
HandoffUrl(url) ==
    LET out == RouteOutcome(findRoute(ServerRoutes, PathOf(url)))
    IN  \/ out.routePath = P_Root
        \/ /\ out.routePath = P_Product
           /\ mockGetProduct(out.params[<<"i", "d">>]) # Null

HandoffFields ==
    {"products", "totalCount", "categories", "currentProduct", "relatedProducts",
     "loading", "error"}

Hydrated == \E i \in 1..Len(page.log) : page.log[i] = Call("hydrateInitialData")

\* C16: for a URL of the home page or of an existing product's detail page,
\* once the client has hydrated from the payload of render(url), its product
\* store agrees with the server's product store at the end of that render on
\* products, totalCount, categories, currentProduct, relatedProducts,
\* loading and error
C16_HandoffPreservesState ==
    (Hydrated /\ HandoffUrl(page.url)) =>
        \A f \in HandoffFields : client.productStore[f] = page.server[f]

C16_Witness ==
    /\ Hydrated
    /\ page.url = U_P42Ref
    /\ client.productStore.currentProduct # Null
    /\ client.productStore.relatedProducts # <<>>

====
